---- MODULE Spec2Model ----
\* Model of src/src/illustrator/server.py: the MCP tool server "illustrator".
\* One coroutine, handle_call_tool, serves every call_tool request; it is an
\* `async def` that never awaits, so it runs on the asyncio event loop started
\* by main() from its first statement to its return without interleaving.
\*
\* Strings are modelled as sequences of tokens: a token is either a single
\* character of interest (double quote, newline, backslash, a letter) or a
\* fixed chunk of the source's literal text that holds none of these.
EXTENDS Integers, Sequences, FiniteSets, TLC

VARIABLES
    inbox,            \* requests read from the transport, not yet handled
    arrived,          \* number of requests that arrived so far (ids 1..arrived)
    served,           \* ids of the requests answered, in the order answered
    active,           \* ids of the requests whose handler has begun and not ended
    cur,              \* the request (name, arguments) the running handler serves
    pc,               \* position of the running handler in handle_call_tool
    fs,               \* temporary file paths that exist on disk
    screenshot_path,  \* local screenshot_path (line 51)
    script,           \* local script after line 112
    result,           \* local result: the CompletedProcess of lines 62 / 121
    calls,            \* steps the running handler has taken, in order
    ret               \* what the running handler returns or raises

vars == <<inbox, arrived, served, active, cur, pc, fs, screenshot_path,
          script, result, calls, ret>>

------------------------------------------------------------------------------
\* Bounds of the model.

\* Requests delivered in one run of the server.
MaxRequests == 2
\* Longest script of the escaping specification.
MaxLen == 3

------------------------------------------------------------------------------
\* Characters and strings.

DQ == "\""
NL == "\n"
BS == "\\"

\* The characters scripts are drawn from.
Alphabet == {"a", DQ, NL, BS}

Scripts == UNION {[1..n -> Alphabet] : n \in 0..MaxLen}

\* The scripts the full server specification sends.
Codes == {<<>>, <<"a">>, <<"a", DQ, NL>>}

\* The texts an external process may leave on stdout / stderr.
Outputs == {<<>>, <<"ok">>}

\* str.replace(old, new) for a one-character old.
RECURSIVE Replace(_, _, _)
Replace(s, old, new) ==
    IF s = <<>> THEN <<>>
    ELSE (IF Head(s) = old THEN new ELSE <<Head(s)>>) \o Replace(Tail(s), old, new)

\* Escape without the second replace: newlines are left as they are.
EscapeQuotesOnly(code) == Replace(code, DQ, <<BS, DQ>>)

\* Line 112: script.replace('"', '\\"').replace("\n", "\\n")
Escape(code) == Replace(Replace(code, DQ, <<BS, DQ>>), NL, <<BS, "n">>)

\* Lines 115-119: the AppleScript sent to osascript by the script tool.
AppleScript(escaped) ==
    <<NL, "tell application ", DQ, "Adobe Illustrator", DQ, NL,
      "do javascript ", DQ>> \o escaped \o <<DQ, NL, "end tell", NL>>

\* Lines 55-59: the AppleScript sent to osascript by the capture tool.
activate_script ==
    <<NL, "tell application ", DQ, "Adobe Illustrator", DQ, " to activate", NL,
      "delay 1", NL,
      "tell application ", DQ, "Claude", DQ, " to activate", NL>>

\* Lines 63-72: the argument vector of the screen capture.
ScreencaptureArgs(path) ==
    <<"screencapture", "-R", "0,0,960,1080", "-C", "-T", "2", "-x", path>>

------------------------------------------------------------------------------
\* Requests.

\* Lines 19-42: the tools handle_list_tools advertises.
handle_list_tools ==
    << [name |-> "capture-illustrator", properties |-> {}, required |-> {}],
       [name |-> "run-illustrator-script", properties |-> {"code"},
        required |-> {"code"}] >>

ToolNames == {handle_list_tools[i].name : i \in 1..Len(handle_list_tools)}

\* Tool names a caller may send: the advertised ones and one that is not.
Names == ToolNames \cup {"view"}

\* A value of an arguments dict: its Python type and, for a str, its text.
\* The handler is handed whatever the caller sent; nothing in it checks the
\* type of a value.
Str(text) == [type |-> "str", str |-> text]
NonStrings ==
    {[type |-> "int", str |-> <<>>],
     [type |-> "NoneType", str |-> <<>>],
     [type |-> "list", str |-> <<>>]}

\* arguments: dict | None.  A dict is a set of <<key, value>> pairs.
NoArguments == [none |-> TRUE, kv |-> {}]
Dict(kv) == [none |-> FALSE, kv |-> kv]

ArgumentsOver(codes) ==
    {NoArguments, Dict({}), Dict({<<"return_to_app", Str(<<"Terminal">>)>>})}
        \cup {Dict({<<"code", Str(c)>>}) : c \in codes}
        \cup {Dict({<<"code", v>>}) : v \in NonStrings}

\* Python truth value of arguments (line 108: `not arguments`).
Truthy(arguments) == ~arguments.none /\ arguments.kv # {}
\* `key in arguments`
HasKey(arguments, key) == \E p \in arguments.kv : p[1] = key
\* arguments[key]
Get(arguments, key) == (CHOOSE p \in arguments.kv : p[1] = key)[2]

\* Line 112: only a str has the method replace; on any other value the
\* attribute lookup raises AttributeError.
HasReplace(value) == value.type = "str"

\* Line 108, negated: the script tool was given code.
HasCode(arguments) == Truthy(arguments) /\ HasKey(arguments, "code")

NoRequest == [id |-> 0, name |-> "", arguments |-> NoArguments]

------------------------------------------------------------------------------
\* Results.

TextContent(text) == [type |-> "text", text |-> text]
ImageContent(mimeType, data) ==
    [type |-> "image", mimeType |-> mimeType, data |-> data]

NoOutcome == [raised |-> FALSE, error |-> "", content |-> <<>>]
Return(blocks) == [raised |-> FALSE, error |-> "", content |-> blocks]
Raise(error) == [raised |-> TRUE, error |-> error, content |-> <<>>]

NoResult == [set |-> FALSE, returncode |-> 0, stdout |-> <<>>, stderr |-> <<>>]
CompletedProcess(rc, out, err) ==
    [set |-> TRUE, returncode |-> rc, stdout |-> out, stderr |-> err]

\* One step of the handler: what ran, with what, and how it ended.
Event(cmd, arg, rc, raised) ==
    [cmd |-> cmd, arg |-> arg, rc |-> rc, raised |-> raised]

\* How subprocess.run can end: the process exits with a status, or the call
\* raises (the executable cannot be started).
ExitCodes == {0, 1}
ProcOutcomes ==
    {[rc |-> c, raised |-> FALSE] : c \in ExitCodes}
        \cup {[rc |-> 0, raised |-> TRUE]}

\* Fresh names tempfile.NamedTemporaryFile may hand out.
TempNames == {"tmp1.png", "tmp2.png"}

------------------------------------------------------------------------------
\* The image step (lines 81-94).

\* Pillow modes the captured file may decode to.
Modes == {"RGB", "RGBA", "LA", "L", "P"}
\* Modes Pillow can write as JPEG among those; the others make img.save raise.
JpegModes == {"RGB", "L"}

\* How Image.open can end: an image of some mode, or an exception.
OpenOutcomes ==
    {[ok |-> TRUE, mode |-> m] : m \in Modes} \cup {[ok |-> FALSE, mode |-> ""]}

\* Lines 83-84: if img.mode in ("RGBA", "LA"): img = img.convert("RGB")
Convert(mode) == IF mode \in {"RGBA", "LA"} THEN "RGB" ELSE mode

\* Lines 90-94: base64 of the JPEG bytes of an image of the given mode.
screenshot_data(mode) == <<"base64", "JPEG", "quality=50", mode>>

\* Lines 81-102: decode, flatten, re-encode, and the block returned.
CompressOutcome(img) ==
    IF ~img.ok THEN Raise("UnidentifiedImageError")
    ELSE IF Convert(img.mode) \notin JpegModes THEN Raise("OSError")
    ELSE Return(<<ImageContent("image/jpeg", screenshot_data(Convert(img.mode)))>>)

------------------------------------------------------------------------------
\* What each branch of handle_call_tool returns or raises.

\* The failed capture answered with an empty list of blocks.
CaptureFailedEmpty == Return(<<>>)

\* Lines 75-78.
CaptureFailedOutcome ==
    Return(<<TextContent(<<"Failed to capture screenshot">>)>>)

\* The missing code reported by raising instead of in a text block.
NoCodeRaise == Raise("ValueError")

\* Lines 108-109.
NoCodeOutcome == Return(<<TextContent(<<"No code provided">>)>>)

\* The error text built from stdout instead of stderr.
ScriptOutcomeStdout(res) ==
    IF res.returncode # 0
    THEN Return(<<TextContent(<<"Error executing script: ">> \o res.stdout)>>)
    ELSE LET success_message == <<"Script executed successfully">>
         IN  IF res.stdout # <<>>
             THEN Return(<<TextContent(success_message \o <<NL, "Output: ">>
                                        \o res.stdout)>>)
             ELSE Return(<<TextContent(success_message)>>)

\* Lines 125-136.
ScriptOutcome(res) ==
    IF res.returncode # 0
    THEN Return(<<TextContent(<<"Error executing script: ">> \o res.stderr)>>)
    ELSE LET success_message == <<"Script executed successfully">>
         IN  IF res.stdout # <<>>
             THEN Return(<<TextContent(success_message \o <<NL, "Output: ">>
                                        \o res.stdout)>>)
             ELSE Return(<<TextContent(success_message)>>)

\* The unknown name answered with a text block instead of an exception.
UnknownToolText(name) == Return(<<TextContent(<<"Unknown tool: ", name>>)>>)

\* Lines 138-139.
UnknownToolOutcome(name) == Raise("ValueError")

\* The exit status of screencapture ignored.
CaptureFailedNever(res) == FALSE

\* Line 75.
CaptureFailed(res) == res.returncode # 0

\* Cleanup placed after the try block instead of in a finally: an exception
\* skips it.
AfterTryNoFinally(outcome) == IF outcome.raised THEN "return" ELSE "finally"

\* Lines 53 and 104: every way of leaving the try block, a return or an
\* exception, passes through the finally block.
AfterTry(outcome) == "finally"

\* Lines 105-106.
Cleanup(files, path) == IF path \in files THEN files \ {path} ELSE files

------------------------------------------------------------------------------
\* The event loop.

\* A handler that awaits lets the loop start the next one meanwhile.
LoopAlwaysFree == TRUE

\* handle_call_tool holds no await: while it runs, the loop starts no other
\* handler.
LoopFree == pc = "idle"

\* The request the loop hands to the handler next.  The dispatch loop is the
\* mcp library's (server.run, called by main at line 145), not source of this
\* repository; its order is taken from the design document, sections 4.2 and
\* 5: requests are served in arrival order.
NextRequest == Head(inbox)

Init ==
    /\ inbox = <<>>
    /\ arrived = 0
    /\ served = <<>>
    /\ active = {}
    /\ cur = NoRequest
    /\ pc = "idle"
    /\ fs = {}
    /\ screenshot_path = ""
    /\ script = <<>>
    /\ result = NoResult
    /\ calls = <<>>
    /\ ret = NoOutcome

\* A call_tool request arrives on the read stream.  The reader is the mcp
\* library's stdio transport; as the design document describes it (sections
\* 4.2 and 6), requests are received one by one and wait in arrival order.
Arrive ==
    /\ arrived < MaxRequests
    /\ \E n \in Names, a \in ArgumentsOver(Codes) :
          inbox' = Append(inbox, [id |-> arrived + 1, name |-> n, arguments |-> a])
    /\ arrived' = arrived + 1
    /\ UNCHANGED <<served, active, cur, pc, fs, screenshot_path, script,
                   result, calls, ret>>

\* Entry of handle_call_tool for the request at the head of the queue.
Enter ==
    /\ LoopFree
    /\ inbox # <<>>
    /\ cur' = NextRequest
    /\ inbox' = Tail(inbox)
    /\ active' = active \cup {NextRequest.id}
    /\ UNCHANGED <<arrived, served>>

\* Lines 49-51: the capture tool; the temporary file is created and kept.
BeginCapture ==
    /\ Enter
    /\ NextRequest.name = "capture-illustrator"
    /\ \E path \in TempNames \ fs :
          /\ screenshot_path' = path
          /\ fs' = fs \cup {path}
          /\ calls' = <<Event("NamedTemporaryFile", <<path>>, 0, FALSE)>>
    /\ pc' = "activate"
    /\ script' = <<>>
    /\ result' = NoResult
    /\ ret' = NoOutcome

\* Lines 55-60: osascript runs the activation script; its exit status is not
\* looked at.
Activate ==
    /\ pc = "activate"
    /\ \E o \in ProcOutcomes :
          /\ calls' = Append(calls, Event("osascript", <<"osascript", "-e">>
                                 \o activate_script, o.rc, o.raised))
          /\ IF o.raised
             THEN /\ ret' = Raise("FileNotFoundError")
                  /\ pc' = AfterTry(Raise("FileNotFoundError"))
             ELSE /\ ret' = ret
                  /\ pc' = "screencapture"
    /\ UNCHANGED <<inbox, arrived, served, active, cur, fs, screenshot_path,
                   script, result>>

\* Lines 62-73: screencapture writes the file when it succeeds; when it fails
\* the file may be left or gone.
Screencapture ==
    /\ pc = "screencapture"
    /\ \E o \in ProcOutcomes, present \in BOOLEAN :
          /\ (o.rc = 0 \/ o.raised) => present
          /\ fs' = IF present THEN fs \cup {screenshot_path}
                              ELSE fs \ {screenshot_path}
          /\ calls' = Append(calls, Event("screencapture",
                                 ScreencaptureArgs(screenshot_path), o.rc, o.raised))
          /\ IF o.raised
             THEN /\ ret' = Raise("FileNotFoundError")
                  /\ pc' = AfterTry(Raise("FileNotFoundError"))
                  /\ result' = result
             ELSE /\ ret' = ret
                  /\ pc' = "check"
                  /\ result' = CompletedProcess(o.rc, <<>>, <<>>)
    /\ UNCHANGED <<inbox, arrived, served, active, cur, screenshot_path, script>>

\* Lines 75-78: a failed capture returns a text block.
CheckCapture ==
    /\ pc = "check"
    /\ IF CaptureFailed(result)
       THEN /\ ret' = CaptureFailedOutcome
            /\ pc' = AfterTry(CaptureFailedOutcome)
       ELSE /\ ret' = ret
            /\ pc' = "compress"
    /\ UNCHANGED <<inbox, arrived, served, active, cur, fs, screenshot_path,
                   script, result, calls>>

\* Lines 80-102: the captured file is decoded and re-encoded as JPEG.
Compress ==
    /\ pc = "compress"
    /\ \E img \in OpenOutcomes :
          /\ calls' = Append(calls, Event("Image.open", <<screenshot_path>>, 0,
                                          CompressOutcome(img).raised))
          /\ ret' = CompressOutcome(img)
          /\ pc' = AfterTry(CompressOutcome(img))
    /\ UNCHANGED <<inbox, arrived, served, active, cur, fs, screenshot_path,
                   script, result>>

\* Lines 104-106: the finally block.
Finally ==
    /\ pc = "finally"
    /\ fs' = Cleanup(fs, screenshot_path)
    /\ calls' = Append(calls, Event("finally", <<screenshot_path>>, 0, FALSE))
    /\ pc' = "return"
    /\ UNCHANGED <<inbox, arrived, served, active, cur, screenshot_path,
                   script, result, ret>>

\* Lines 107-109: the script tool without code.
BeginScriptNoCode ==
    /\ Enter
    /\ NextRequest.name = "run-illustrator-script"
    /\ ~HasCode(NextRequest.arguments)
    /\ ret' = NoCodeOutcome
    /\ pc' = "return"
    /\ calls' = <<>>
    /\ script' = <<>>
    /\ result' = NoResult
    /\ screenshot_path' = ""
    /\ fs' = fs

\* Lines 107-112: the script tool with code that is not a str; script.replace
\* raises AttributeError before any process is started.
BeginScriptNotStr ==
    /\ Enter
    /\ NextRequest.name = "run-illustrator-script"
    /\ HasCode(NextRequest.arguments)
    /\ ~HasReplace(Get(NextRequest.arguments, "code"))
    /\ ret' = Raise("AttributeError")
    /\ pc' = "return"
    /\ calls' = <<>>
    /\ script' = <<>>
    /\ result' = NoResult
    /\ screenshot_path' = ""
    /\ fs' = fs

\* Lines 107-119: the script tool with code that is a str; the code is escaped.
BeginScript ==
    /\ Enter
    /\ NextRequest.name = "run-illustrator-script"
    /\ HasCode(NextRequest.arguments)
    /\ HasReplace(Get(NextRequest.arguments, "code"))
    /\ script' = Escape(Get(NextRequest.arguments, "code").str)
    /\ pc' = "run"
    /\ calls' = <<>>
    /\ result' = NoResult
    /\ ret' = NoOutcome
    /\ screenshot_path' = ""
    /\ fs' = fs

\* Lines 121-136: osascript runs the wrapped script; its status, stdout and
\* stderr decide the text returned.
RunScript ==
    /\ pc = "run"
    /\ \E o \in ProcOutcomes, out \in Outputs, err \in Outputs :
          /\ o.raised => (out = <<>> /\ err = <<>>)
          /\ calls' = Append(calls, Event("osascript", <<"osascript", "-e">>
                                 \o AppleScript(script), o.rc, o.raised))
          /\ IF o.raised
             THEN /\ result' = result
                  /\ ret' = Raise("FileNotFoundError")
             ELSE /\ result' = CompletedProcess(o.rc, out, err)
                  /\ ret' = ScriptOutcome(CompletedProcess(o.rc, out, err))
    /\ pc' = "return"
    /\ UNCHANGED <<inbox, arrived, served, active, cur, fs, screenshot_path,
                   script>>

\* Lines 138-139: any other name.
BeginUnknown ==
    /\ Enter
    /\ NextRequest.name \notin {"capture-illustrator", "run-illustrator-script"}
    /\ ret' = UnknownToolOutcome(NextRequest.name)
    /\ pc' = "return"
    /\ calls' = <<>>
    /\ script' = <<>>
    /\ result' = NoResult
    /\ screenshot_path' = ""
    /\ fs' = fs

\* The handler has returned or raised; the server answers the request and the
\* loop is free again.
Respond ==
    /\ pc = "return"
    /\ served' = Append(served, cur.id)
    /\ active' = active \ {cur.id}
    /\ cur' = NoRequest
    /\ pc' = "idle"
    /\ screenshot_path' = ""
    /\ script' = <<>>
    /\ result' = NoResult
    /\ calls' = <<>>
    /\ ret' = NoOutcome
    /\ UNCHANGED <<inbox, arrived, fs>>

Next ==
    \/ Arrive
    \/ BeginCapture
    \/ Activate
    \/ Screencapture
    \/ CheckCapture
    \/ Compress
    \/ Finally
    \/ BeginScriptNoCode
    \/ BeginScriptNotStr
    \/ BeginScript
    \/ RunScript
    \/ BeginUnknown
    \/ Respond

Spec == Init /\ [][Next]_vars

------------------------------------------------------------------------------
\* The script tool alone, over every script of the alphabet up to MaxLen: one
\* run-illustrator-script request is pending and the handler serves it.

EscInit ==
    /\ \E code \in Scripts :
          inbox = <<[id |-> 1, name |-> "run-illustrator-script",
                     arguments |-> Dict({<<"code", Str(code)>>})]>>
    /\ arrived = 1
    /\ served = <<>>
    /\ active = {}
    /\ cur = NoRequest
    /\ pc = "idle"
    /\ fs = {}
    /\ screenshot_path = ""
    /\ script = <<>>
    /\ result = NoResult
    /\ calls = <<>>
    /\ ret = NoOutcome

EscNext ==
    \/ BeginScript
    \/ RunScript
    \/ Respond

EscSpec == EscInit /\ [][EscNext]_vars

------------------------------------------------------------------------------
\* Vocabulary of the properties.

IsCapture == cur.name = "capture-illustrator"
IsScript == cur.name = "run-illustrator-script"

\* The handler has returned or raised and ret is its outcome.
Returned == pc = "return"

OneText(outcome) ==
    /\ ~outcome.raised
    /\ Len(outcome.content) = 1
    /\ outcome.content[1].type = "text"

OneImage(outcome) ==
    /\ ~outcome.raised
    /\ Len(outcome.content) = 1
    /\ outcome.content[1].type = "image"

\* t holds s as a contiguous part.
Contains(t, s) ==
    \E i \in 0..(Len(t) - Len(s)) : SubSeq(t, i + 1, i + Len(s)) = s

EndsWith(t, s) ==
    Len(t) >= Len(s) /\ SubSeq(t, Len(t) - Len(s) + 1, Len(t)) = s

Chars(s) == {s[i] : i \in 1..Len(s)}

\* The external processes the running handler has started.
ProcessCalls == SelectSeq(calls, LAMBDA e : e.cmd \in {"osascript", "screencapture"})

Ran(cmd) == \E i \in 1..Len(calls) : calls[i].cmd = cmd

\* Any step of the running handler.
HandlerStep ==
    Activate \/ Screencapture \/ CheckCapture \/ Compress \/ Finally
        \/ RunScript \/ Respond

\* s[j..j+4] is the command: tell application "<app>" to activate
Activates(s, j, app) ==
    /\ j + 4 <= Len(s)
    /\ s[j] = "tell application "
    /\ s[j + 1] = DQ
    /\ s[j + 2] = app
    /\ s[j + 3] = DQ
    /\ s[j + 4] = " to activate"

\* AppleScript string literals: a backslash takes the next character with it,
\* and the first double quote not taken so ends the literal.  The index of
\* that double quote in s from position i on, or 0 when there is none.
RECURSIVE FirstClose(_, _)
FirstClose(s, i) ==
    IF i > Len(s) THEN 0
    ELSE IF s[i] = BS THEN FirstClose(s, i + 2)
    ELSE IF s[i] = DQ THEN i
    ELSE FirstClose(s, i + 1)

\* "<escaped>" is one string literal on one line: no newline inside, and the
\* quote that ends it is the template's own closing quote.
ValidLiteral(escaped) ==
    /\ NL \notin Chars(escaped)
    /\ FirstClose(escaped \o <<DQ>>, 1) = Len(escaped) + 1

\* The order of the capture pipeline's steps.
Rank(cmd) ==
    CASE cmd = "NamedTemporaryFile" -> 1
      [] cmd = "osascript" -> 2
      [] cmd = "screencapture" -> 3
      [] cmd = "Image.open" -> 4
      [] cmd = "finally" -> 5
      [] OTHER -> 0

------------------------------------------------------------------------------
\* The claims.

\* C1: whenever a capture-illustrator call has returned or raised, on any of
\* its exit paths, the temporary file it allocated does not exist.
C1_TempFileRemoved ==
    (Returned /\ IsCapture) =>
        /\ screenshot_path \in TempNames
        /\ screenshot_path \notin fs

\* C1 witness: a capture call whose decode step raised has ended, and its file
\* is gone.
C1_Witness ==
    /\ Returned /\ IsCapture /\ ret.raised /\ Ran("Image.open")
    /\ screenshot_path \notin fs

\* C2: a handler that has ended either returned a non-empty list of blocks or
\* raised, never both and never neither; and a handler that has not ended can
\* always take its next step.
C2_ExactlyOneOutcome ==
    /\ Returned =>
          \/ ret.raised /\ ret.content = <<>>
          \/ ~ret.raised /\ ret.content # <<>>
    /\ pc # "idle" => ENABLED HandlerStep

\* C2 witness: a script call whose subprocess.run raised has ended, raised and
\* without content.
C2_Witness ==
    /\ Returned /\ IsScript /\ HasCode(cur.arguments)
    /\ ret.raised /\ ret.content = <<>>
    /\ Len(ProcessCalls) = 1

\* C3: a call naming a tool handle_list_tools does not advertise ends raised,
\* with no content, no external process started and no temporary file made.
C3_UnknownToolRaises ==
    (Returned /\ cur.name \notin ToolNames) =>
        /\ ret.raised
        /\ ret.content = <<>>
        /\ calls = <<>>
        /\ screenshot_path = ""
        /\ fs = {}

\* C3 witness: a call to the unadvertised name "view" has ended raised.
C3_Witness == Returned /\ cur.name = "view" /\ ret.raised

\* C4 (as claimed): the activation script of a capture call given
\* return_to_app activates that application after Adobe Illustrator, and the
\* script of a call given no return_to_app activates Adobe Illustrator only.
C4_ReturnToAppActivated ==
    \A i \in 1..Len(calls) :
        (IsCapture /\ calls[i].cmd = "osascript") =>
            LET s == calls[i].arg
            IN  IF HasKey(cur.arguments, "return_to_app")
                THEN \E j, k \in 1..Len(s) :
                        /\ j < k
                        /\ Activates(s, j, "Adobe Illustrator")
                        /\ Activates(s, k, Get(cur.arguments, "return_to_app").str[1])
                ELSE \A j \in 1..(Len(s) - 4) :
                        Activates(s, j, s[j + 2]) => s[j + 2] = "Adobe Illustrator"

\* C5 (as claimed): a capture call in which no step raised and osascript or
\* screencapture exited non-zero ends with exactly one text block, never with
\* an image block and never raised.
C5_NonZeroExitInBand ==
    (/\ Returned /\ IsCapture
     /\ \A i \in 1..Len(calls) : ~calls[i].raised
     /\ \E i \in 1..Len(ProcessCalls) : ProcessCalls[i].rc # 0)
        => OneText(ret)

\* C6 (as claimed): a script call whose arguments hold the key code starts
\* exactly one external process; when that process exits non-zero the outcome
\* is one text block holding stderr, when it exits zero one text block holding
\* the success message, and the block ends with stdout exactly when stdout is
\* non-empty.
C6_ScriptResultAnyCode ==
    (Returned /\ IsScript /\ HasKey(cur.arguments, "code")) =>
        /\ Len(ProcessCalls) = 1
        /\ ProcessCalls[1].cmd = "osascript"
        /\ result.set =>
              /\ OneText(ret)
              /\ LET text == ret.content[1].text
                 IN  IF result.returncode # 0
                     THEN Contains(text, result.stderr)
                     ELSE /\ Head(text) = "Script executed successfully"
                          /\ result.stdout = <<>> => Len(text) = 1
                          /\ result.stdout # <<>> =>
                                /\ Len(text) > 1 + Len(result.stdout)
                                /\ EndsWith(text, result.stdout)

\* C6 (amended): the same for a script call whose code is a string; and a
\* script call whose code is not a string starts no external process and ends
\* raised.
C6_ScriptResult ==
    (Returned /\ IsScript /\ HasKey(cur.arguments, "code")) =>
        IF Get(cur.arguments, "code").type = "str"
        THEN /\ Len(ProcessCalls) = 1
             /\ ProcessCalls[1].cmd = "osascript"
             /\ result.set =>
                   /\ OneText(ret)
                   /\ LET text == ret.content[1].text
                      IN  IF result.returncode # 0
                          THEN /\ Contains(text, result.stderr)
                               /\ text = <<"Error executing script: ">> \o result.stderr
                          ELSE /\ Head(text) = "Script executed successfully"
                               /\ result.stdout = <<>> => Len(text) = 1
                               /\ result.stdout # <<>> =>
                                     /\ Len(text) > 1 + Len(result.stdout)
                                     /\ EndsWith(text, result.stdout)
        ELSE /\ Len(ProcessCalls) = 0
             /\ ret.raised
             /\ ~result.set

\* C6 witness: a script call whose code is a string and whose process exited
\* non-zero with text on stderr.
C6_Witness ==
    /\ Returned /\ IsScript /\ result.set
    /\ Get(cur.arguments, "code").type = "str"
    /\ result.returncode # 0 /\ result.stderr # <<>>

\* C7: a script call whose arguments are missing, empty or without the key
\* code ends, not raised, with the one text block "No code provided", and
\* starts no external process.
C7_NoCodeProvided ==
    (/\ Returned /\ IsScript
     /\ \/ cur.arguments.none
        \/ cur.arguments.kv = {}
        \/ \A p \in cur.arguments.kv : p[1] # "code")
        =>
        /\ OneText(ret)
        /\ ret.content[1].text = <<"No code provided">>
        /\ calls = <<>>
        /\ ~result.set

\* C7 witness: a script call with a dict that lacks the key code has ended.
C7_Witness ==
    /\ Returned /\ IsScript
    /\ ~cur.arguments.none /\ cur.arguments.kv # {}
    /\ \A p \in cur.arguments.kv : p[1] # "code"
    /\ OneText(ret)

\* C8 (as claimed): for every script over the alphabet, backslash included,
\* the escaped script makes a one-line, validly quoted literal, and a script
\* without double quote and newline is left as it is.
C8_EscapedAlwaysValid ==
    (pc = "run") =>
        LET code == Get(cur.arguments, "code").str
        IN  /\ ValidLiteral(script)
            /\ (DQ \notin Chars(code) /\ NL \notin Chars(code)) => script = code

\* C8 (amended): the escaped script never holds a newline; for every script
\* without a backslash it makes a one-line, validly quoted literal; and a
\* script without double quote and newline is left as it is.
C8_EscapedValidWithoutBackslash ==
    (pc = "run") =>
        LET code == Get(cur.arguments, "code").str
        IN  /\ NL \notin Chars(script)
            /\ BS \notin Chars(code) => ValidLiteral(script)
            /\ (DQ \notin Chars(code) /\ NL \notin Chars(code)) => script = code

\* C8 witness: a script holding a double quote and a newline, and no
\* backslash, has been escaped.
C8_Witness ==
    /\ pc = "run"
    /\ LET code == Get(cur.arguments, "code").str
       IN  DQ \in Chars(code) /\ NL \in Chars(code) /\ BS \notin Chars(code)
    /\ script # Get(cur.arguments, "code").str

C10_CaptureOrder ==
    IsCapture =>
        /\ \A i, j \in 1..Len(calls) :
              i < j => (0 < Rank(calls[i].cmd) /\ Rank(calls[i].cmd) < Rank(calls[j].cmd))
        /\ Returned =>
              /\ Len(calls) >= 3
              /\ calls[1].cmd = "NamedTemporaryFile"
              /\ calls[2].cmd = "osascript"
              /\ calls[Len(calls)].cmd = "finally"
              /\ Ran("Image.open") => Ran("screencapture")
              /\ (result.set /\ result.returncode # 0) =>
                    /\ ~Ran("Image.open")
                    /\ OneText(ret)
                    /\ ret.content[1].text = <<"Failed to capture screenshot">>
              /\ (result.set /\ result.returncode = 0 /\ ~ret.raised) =>
                    /\ Ran("Image.open")
                    /\ OneImage(ret)
                    /\ ret.content[1].mimeType = "image/jpeg"

\* C10 witness: a capture call whose screencapture exited non-zero has ended.
C10_Witness ==
    /\ Returned /\ IsCapture
    /\ result.set /\ result.returncode # 0
    /\ ~Ran("Image.open")

====
